---- MODULE Spec2Model ----
(***************************************************************************)
(* tiny-mpi-cxx: one process (rank) of a program that uses the typed       *)
(* layer over MPI.  The model follows                                      *)
(*   include/tiny_mpi/tiny_mpi.hpp  (check, barrier, wait, async, ...)     *)
(*   the translation unit that defines initialized, finalized, init, fini, *)
(*   abort, print_error, probe and wait (unnamed/part_003; src/tiny_mpi.cpp*)
(*   holds two earlier revisions of the same functions with the same       *)
(*   control flow).                                                        *)
(* The substrate (MPI) is the environment: the status every MPI call       *)
(* returns is an input of the step that makes the call, MPI_Initialized    *)
(* and MPI_Finalized answer from the substrate's own flags, and the two    *)
(* calls that block (MPI_Waitall, MPI_Abort) are left by a later step.     *)
(* The variable trace is what the most recent operation of the caller did, *)
(* in program order: functions of the layer entered, MPI calls with the    *)
(* status they returned, lines written to stderr, and exit().              *)
(***************************************************************************)
EXTENDS Integers, Sequences, FiniteSets, TLC

\* ------------------------------------------------------------- bounds
\* Non-zero statuses the substrate may return are 1..MaxErr.
MaxErr == 2
\* Non-zero statuses of the substrate's queries are 1..MaxQErr.
MaxQErr == 1
\* MPI_Finalize is called at most this many times in a run.
MaxFinalize == 2
\* Requests (asynchronous-operation handles) issued in a run.
MaxRequests == 2
\* async<N> bundles constructed in a run.
MaxBundles == 2
\* scoped_init guards constructed in a run.
MaxGuards == 2
\* Ranks of MPI_COMM_WORLD: a run has 1..MaxRanks of them.
MaxRanks == 3

\* thread_support_t (tiny_mpi.hpp:19-24); the MPI_THREAD_* values of mpi.h.
THREAD_SINGLE == 1
THREAD_FUNNELED == 1
THREAD_SERIALIZED == 2
THREAD_MULTIPLE == 3

Codes == 0..MaxErr
\* Statuses of the calls made on an error path (MPI_Error_string, the
\* MPI_Initialized query of abort) and of the lifecycle queries.
QCodes == 0..MaxQErr
\* Levels MPI_Init_thread may grant: MPI_THREAD_SINGLE .. MPI_THREAD_MULTIPLE.
Levels == 0..THREAD_MULTIPLE
Supports == {THREAD_SINGLE, THREAD_FUNNELED, THREAD_SERIALIZED, THREAD_MULTIPLE}
Requests == 1..MaxRequests

VARIABLES
  proc,             \* "running" | "exited" (exit(EXIT_FAILURE)) | "killed" (inside MPI_Abort)
  pc,               \* "idle" | "MPI_Waitall" | "MPI_Abort": where the caller's thread is
  trace,            \* events of the most recent operation, in program order
  mpi_initialized,  \* the flag MPI_Initialized reports
  mpi_finalized,    \* the flag MPI_Finalized reports
  provided,         \* <<>> or <<level>>: the level MPI_Init_thread granted
  nInitThread,      \* calls of MPI_Init_thread so far
  nFinalize,        \* calls of MPI_Finalize so far
  prevInit,         \* <<>> or <<level>>: what the previous init() returned
  req,              \* request -> "null" | "inflight" | "complete" | "freed"
  retired,          \* request -> times it was passed to MPI_Waitall
  waiting,          \* the array the pending MPI_Waitall was given
  bundles,          \* the async<N> objects constructed so far, oldest first
  guards,           \* the scoped_init guards (_raii) constructed so far, oldest first
  world,            \* rank -> that rank's part of a collective over MPI_COMM_WORLD
  wire,             \* a byte-fallback message between two ranks: sizes and counts
  held,             \* request -> what the caller's variable that received it holds
  lookup            \* the last use of a registry or of a function object of the layer

vars == <<proc, pc, trace, mpi_initialized, mpi_finalized, provided, nInitThread,
          nFinalize, prevInit, req, retired, waiting, bundles, guards, world, wire,
          held, lookup>>

substrate == <<mpi_initialized, mpi_finalized, provided, nInitThread, nFinalize>>
handles == <<req, retired, waiting, bundles, held>>
\* What the calls of one rank's lifecycle functions, wrappers and bundles
\* leave alone.
apart == <<guards, world, wire, lookup>>
\* No registry and no function object was used yet.
NoLookup == [what |-> "none", t1 |-> "", t2 |-> "", d1 |-> "", d2 |-> "",
             f |-> "", a |-> 0, b |-> 0, r |-> 0]
\* A program that uses neither guards, nor collectives' results, nor
\* byte-fallback messages.
NoneApart == guards = <<>> /\ world = <<>> /\ wire = <<>> /\ lookup = NoLookup

\* ------------------------------------------------------------- events
Enter(fn, a) == [ev |-> "enter", sym |-> fn, txt |-> "", arg |-> a, code |-> 0]
\* A destructor entered for object i because its scope was left in way how.
Leave(fn, i, how) == [ev |-> "enter", sym |-> fn, txt |-> how, arg |-> i, code |-> 0]
\* A request named as an argument of the call just entered.
Arg(r) == [ev |-> "arg", sym |-> "request_t", txt |-> "", arg |-> r, code |-> 0]
\* An MPI call that returned status e.
Call(sym, a, e) == [ev |-> "call", sym |-> sym, txt |-> "", arg |-> a, code |-> e]
\* A blocking MPI call entered; its Call event follows when it returns.
Invoke(sym, a) == [ev |-> "invoke", sym |-> sym, txt |-> "", arg |-> a, code |-> 0]
\* fprintf(stderr, "<loc> <sym> <txt> [<str>] (<code>)\n"); str is the
\* translated text of status s, written here as s, and 0 for the empty string.
Stderr(sym, txt, s, e) == [ev |-> "stderr", sym |-> sym, txt |-> txt, arg |-> s, code |-> e]
\* exit(EXIT_FAILURE)
Exit == [ev |-> "exit", sym |-> "EXIT_FAILURE", txt |-> "", arg |-> 0, code |-> 0]
\* The function returned value v to the caller of the layer.
Return(fn, v) == [ev |-> "return", sym |-> fn, txt |-> "", arg |-> 0, code |-> v]
\* The substrate ended the process inside MPI_Abort(comm, e): exit status e.
Killed(e) == [ev |-> "killed", sym |-> "MPI_Abort", txt |-> "", arg |-> 0, code |-> e]

\* An outcome of running code of the layer: the events, and how it ended:
\* "return" (to its caller, with val), "exit", or blocked in "MPI_Abort".
Outcome(tr, end, val) == [tr |-> tr, end |-> end, val |-> val]

\* ------------------------------------------------- lifecycle queries
Bool(b) == IF b THEN 1 ELSE 0

\* An initialized() that sends a failed query through the error path of check:
\* print_error, then abort and its MPI_Abort.
initialized_via_abort(e) ==
  IF e # 0
  THEN Outcome(<<Call("MPI_Initialized", 0, e), Enter("print_error", e),
                 Call("MPI_Error_string", e, 0),
                 Stderr("MPI_Initialized", "returned error", e, e),
                 Enter("abort", e), Invoke("MPI_Abort", e)>>, "MPI_Abort", FALSE)
  ELSE Outcome(<<Call("MPI_Initialized", Bool(mpi_initialized), 0)>>, "return",
               mpi_initialized)

\* initialized(): part_003:4-14. e is the status of MPI_Initialized; the
\* event's argument is the flag the query stored (0 when it failed).
initialized(e) ==
  IF e # 0
  THEN Outcome(<<Call("MPI_Initialized", 0, e),
                 Stderr("MPI_Initialized", "failed with", 0, e), Exit>>, "exit", FALSE)
  ELSE Outcome(<<Call("MPI_Initialized", Bool(mpi_initialized), 0)>>, "return",
               mpi_initialized)

\* finalized(): part_003:16-26.
finalized(e) ==
  IF e # 0
  THEN Outcome(<<Call("MPI_Finalized", 0, e),
                 Stderr("MPI_Finalized", "failed with", 0, e), Exit>>, "exit", FALSE)
  ELSE Outcome(<<Call("MPI_Finalized", Bool(mpi_finalized), 0)>>, "return",
               mpi_finalized)

\* A print_error that returns without a line when the translation fails.
print_error_silent(f, e, es) ==
  IF es # 0
  THEN <<Enter("print_error", e), Call("MPI_Error_string", e, es)>>
  ELSE <<Enter("print_error", e), Call("MPI_Error_string", e, es),
         Stderr(f, "returned error", e, e)>>

\* print_error(symbol, e): part_003:76-86. es is the status of
\* MPI_Error_string; on failure the text is the empty string.
print_error(f, e, es) ==
  <<Enter("print_error", e), Call("MPI_Error_string", e, es),
    Stderr(f, "returned error", IF es # 0 THEN 0 ELSE e, e)>>

\* An abort without the initialized() guard: MPI_Abort is always called.
abort_unguarded(e, qe) ==
  Outcome(<<Enter("abort", e), Invoke("MPI_Abort", e)>>, "MPI_Abort", FALSE)

\* abort(e) up to its call of MPI_Abort: part_003:61-70. qe is the status of
\* the MPI_Initialized query it makes.
abort(e, qe) ==
  LET q == initialized(qe) IN
  IF q.end = "exit"
  THEN Outcome(<<Enter("abort", e)>> \o q.tr, "exit", FALSE)
  ELSE IF ~q.val
  THEN Outcome(<<Enter("abort", e)>> \o q.tr
                 \o <<Stderr("MPI_Abort", "called with error code", 0, e), Exit>>,
               "exit", FALSE)
  ELSE Outcome(<<Enter("abort", e)>> \o q.tr \o <<Invoke("MPI_Abort", e)>>,
               "MPI_Abort", FALSE)

\* A check that reports the error and returns to its caller.
check_no_abort(symbol, a, e, es, qe) ==
  IF e # 0
  THEN Outcome(<<Call(symbol, a, e)>> \o print_error(symbol, e, es), "return", TRUE)
  ELSE Outcome(<<Call(symbol, a, 0)>>, "return", TRUE)

\* check(sloc, symbol, f, ts...): tiny_mpi.hpp:173-186. e is the status f
\* returned, a its leading argument; es and qe feed print_error and abort.
check(symbol, a, e, es, qe) ==
  IF e # 0
  THEN LET ab == abort(e, qe) IN
       Outcome(<<Call(symbol, a, e)>> \o print_error(symbol, e, es) \o ab.tr,
               ab.end, FALSE)
  ELSE Outcome(<<Call(symbol, a, 0)>>, "return", TRUE)

\* How an outcome leaves the process and the caller's thread.
ProcAfter(o) == IF o.end = "exit" THEN "exited" ELSE "running"
PcAfter(o) == IF o.end = "MPI_Abort" THEN "MPI_Abort" ELSE "idle"

Idle == proc = "running" /\ pc = "idle"

\* The statuses of the calls check makes after status e: read only if e # 0.
OnError(e) == IF e # 0 THEN QCodes ELSE {0}

\* The state of the caller after code with outcome o ran as function fn,
\* called by an operation that had done pre before.
FinishAfter(pre, fn, a, o, rv) ==
  /\ trace' = pre \o <<Enter(fn, a)>> \o o.tr
                \o (IF o.end = "return" THEN <<Return(fn, rv)>> ELSE <<>>)
  /\ proc' = ProcAfter(o)
  /\ pc' = PcAfter(o)

\* The state of the caller after code with outcome o ran as operation fn.
Finish(fn, a, o, rv) == FinishAfter(<<>>, fn, a, o, rv)

\* ------------------------------------------------------- the caller's calls
\* bool initialized(): the caller's own query.
Initialized ==
  /\ Idle
  /\ \E e \in QCodes :
       LET o == initialized(e) IN Finish("initialized", 0, o, Bool(o.val))
  /\ UNCHANGED <<substrate, prevInit, handles>>
  /\ UNCHANGED apart

\* bool finalized()
Finalized ==
  /\ Idle
  /\ \E e \in QCodes :
       LET o == finalized(e) IN Finish("finalized", 0, o, Bool(o.val))
  /\ UNCHANGED <<substrate, prevInit, handles>>
  /\ UNCHANGED apart

\* An init without the initialized() guard: it always calls MPI_Init_thread.
init_unguarded(support, qe, e, es, qe2, lvl) ==
  /\ nInitThread' = nInitThread + 1
  /\ Finish("init", support,
            Outcome(<<Call("MPI_Init_thread", support, 0)>>, "return", FALSE), lvl)
  /\ mpi_initialized' = TRUE
  /\ provided' = <<lvl>>
  /\ prevInit' = <<lvl>>
  /\ UNCHANGED <<mpi_finalized, nFinalize>>

\* init(support): part_003:28-45. qe: status of MPI_Initialized; e: status of
\* MPI_Query_thread or MPI_Init_thread; lvl: the level MPI_Init_thread grants.
init(support, qe, e, es, qe2, lvl) ==
  LET q == initialized(qe) IN
  IF q.end = "exit"
  THEN /\ Finish("init", support, q, 0)
       /\ UNCHANGED <<substrate, prevInit>>
  ELSE IF q.val
  THEN \* MPI_Query_thread(&out) reports the level granted at initialization
       LET c == check("MPI_Query_thread", 0, e, es, qe2)
           out == provided[1]
       IN /\ Finish("init", support, Outcome(q.tr \o c.tr, c.end, FALSE), out)
          /\ prevInit' = IF c.end = "return" THEN <<out>> ELSE prevInit
          /\ UNCHANGED substrate
  ELSE /\ nInitThread' = nInitThread + 1
       /\ IF e # 0
          THEN /\ Finish("init", support,
                         Outcome(q.tr \o <<Call("MPI_Init_thread", support, e),
                                          Stderr("MPI_Init", "failed with", 0, e), Exit>>,
                                 "exit", FALSE), 0)
               /\ UNCHANGED <<mpi_initialized, mpi_finalized, provided, nFinalize, prevInit>>
          ELSE /\ Finish("init", support,
                         Outcome(q.tr \o <<Call("MPI_Init_thread", support, 0)>>,
                                 "return", FALSE), lvl)
               /\ mpi_initialized' = TRUE
               /\ provided' = <<lvl>>
               /\ prevInit' = <<lvl>>
               /\ UNCHANGED <<mpi_finalized, nFinalize>>

Init_ ==
  /\ Idle
  /\ \E support \in Supports, qe \in QCodes, e \in Codes :
       \E es \in OnError(e), qe2 \in OnError(e),
          lvl \in (IF e = 0 /\ ~mpi_initialized THEN Levels ELSE {0}) :
         init(support, qe, e, es, qe2, lvl)
  /\ UNCHANGED handles
  /\ UNCHANGED apart

\* fini(): part_003:47-59. qe: status of MPI_Initialized; e: of MPI_Finalize;
\* pre: what the operation that calls fini did before.
fini_after(pre, qe, e) ==
  LET q == initialized(qe) IN
  IF q.end = "exit"
  THEN /\ FinishAfter(pre, "fini", 0, q, 0)
       /\ UNCHANGED substrate
  ELSE IF ~q.val
  THEN /\ FinishAfter(pre, "fini", 0, q, 0)
       /\ UNCHANGED substrate
  ELSE /\ nFinalize < MaxFinalize
       /\ nFinalize' = nFinalize + 1
       /\ IF e # 0
          THEN /\ FinishAfter(pre, "fini", 0,
                              Outcome(q.tr \o <<Call("MPI_Finalize", 0, e),
                                               Stderr("MPI_Finalize", "failed with", 0, e), Exit>>,
                                      "exit", FALSE), 0)
               /\ UNCHANGED <<mpi_initialized, mpi_finalized, provided, nInitThread>>
          ELSE /\ FinishAfter(pre, "fini", 0,
                              Outcome(q.tr \o <<Call("MPI_Finalize", 0, 0)>>, "return", FALSE), 0)
               /\ mpi_finalized' = TRUE
               /\ UNCHANGED <<mpi_initialized, provided, nInitThread>>

\* A fini without the initialized() guard: it always calls MPI_Finalize.
fini_unguarded(qe, e) ==
  /\ nFinalize < MaxFinalize
  /\ nFinalize' = nFinalize + 1
  /\ Finish("fini", 0, Outcome(<<Call("MPI_Finalize", 0, 0)>>, "return", FALSE), 0)
  /\ mpi_finalized' = TRUE
  /\ UNCHANGED <<mpi_initialized, provided, nInitThread>>

\* fini() called by the caller itself.
fini(qe, e) == fini_after(<<>>, qe, e)

Fini ==
  /\ Idle
  /\ \E qe \in QCodes, e \in Codes : fini(qe, e)
  /\ UNCHANGED <<prevInit, handles>>
  /\ UNCHANGED apart

\* abort(e) called by the caller itself; -1 is the default argument
\* (tiny_mpi.hpp:150).
AbortArgs == Codes \cup {-1}

Abort ==
  /\ Idle
  /\ \E e \in AbortArgs, qe \in QCodes :
       LET o == abort(e, qe) IN
       /\ trace' = o.tr
       /\ proc' = ProcAfter(o)
       /\ pc' = PcAfter(o)
  /\ UNCHANGED <<substrate, prevInit, handles>>
  /\ UNCHANGED apart

\* The argument of the pending MPI_Abort call.
AbortArg == trace[Len(trace)].arg

\* MPI_Abort does not return: the substrate ends the process (and the group).
MPI_Abort_kills ==
  /\ proc = "running" /\ pc = "MPI_Abort"
  /\ proc' = "killed"
  /\ trace' = Append(trace, Killed(AbortArg))
  /\ UNCHANGED <<pc, substrate, prevInit, handles>>
  /\ UNCHANGED apart

\* An abort that exits only if MPI_Abort reported an error, and otherwise
\* returns to its caller.
abort_returned_if_error(r) ==
  IF r # 0
  THEN /\ trace' = trace \o <<Call("MPI_Abort", AbortArg, r),
                               Stderr("MPI_Abort", "failed with error code", 0, r), Exit>>
       /\ proc' = "exited"
       /\ pc' = "idle"
  ELSE /\ trace' = trace \o <<Call("MPI_Abort", AbortArg, r), Return("abort", 0)>>
       /\ proc' = "running"
       /\ pc' = "idle"

\* MPI_Abort returned status r: abort reports it and exits, part_003:70-73.
abort_returned(r) ==
  /\ trace' = trace \o <<Call("MPI_Abort", AbortArg, r),
                         Stderr("MPI_Abort", "failed with error code", 0, r), Exit>>
  /\ proc' = "exited"
  /\ pc' = "idle"

MPI_Abort_returns ==
  /\ proc = "running" /\ pc = "MPI_Abort"
  /\ \E r \in Codes : abort_returned(r)
  /\ UNCHANGED <<substrate, prevInit, handles>>
  /\ UNCHANGED apart

\* ------------------------------------------------------ operation wrappers
Range(f) == {f[i] : i \in DOMAIN f}

\* The request the substrate hands out next.
Fresh == CHOOSE r \in Requests : req[r] = "null" /\ \A q \in Requests : req[q] = "null" => r <= q

\* A wrapper that makes its MPI call again after the first one succeeded.
wrapper_twice(fn, symbol, e, es, qe) ==
  LET c == check(symbol, 0, e, es, qe) IN
  /\ Finish(fn, 0, IF c.end = "return"
                   THEN Outcome(<<Call(symbol, 0, 0)>> \o c.tr, c.end, c.val) ELSE c, Fresh)
  /\ req' = IF c.end = "return" THEN [req EXCEPT ![Fresh] = "inflight"] ELSE req
  /\ held' = IF c.end = "return" THEN [held EXCEPT ![Fresh] = "handle"] ELSE held

\* A wrapper that issues one MPI_I* call through check and returns its
\* request: barrier (tiny_mpi.hpp:215-222), send (249-261), recv (292-304),
\* allreduce (335-346, 386-396), allgather (398-418, 430-452). The caller
\* keeps the returned handle in a variable of its own.
wrapper(fn, symbol, e, es, qe) ==
  LET c == check(symbol, 0, e, es, qe) IN
  /\ Finish(fn, 0, c, Fresh)
  /\ req' = IF c.end = "return" THEN [req EXCEPT ![Fresh] = "inflight"] ELSE req
  /\ held' = IF c.end = "return" THEN [held EXCEPT ![Fresh] = "handle"] ELSE held

barrier ==
  /\ Idle
  /\ \E r \in Requests : req[r] = "null"
  /\ \E e \in Codes : \E es \in OnError(e), qe \in OnError(e) :
       wrapper("barrier", "MPI_Ibarrier", e, es, qe)
  /\ UNCHANGED <<substrate, prevInit, retired, waiting, bundles>>
  /\ UNCHANGED apart

send ==
  /\ Idle
  /\ \E r \in Requests : req[r] = "null"
  /\ \E e \in Codes : \E es \in OnError(e), qe \in OnError(e) :
       wrapper("send", "MPI_Isend", e, es, qe)
  /\ UNCHANGED <<substrate, prevInit, retired, waiting, bundles>>
  /\ UNCHANGED apart

recv ==
  /\ Idle
  /\ \E r \in Requests : req[r] = "null"
  /\ \E e \in Codes : \E es \in OnError(e), qe \in OnError(e) :
       wrapper("recv", "MPI_Irecv", e, es, qe)
  /\ UNCHANGED <<substrate, prevInit, retired, waiting, bundles>>
  /\ UNCHANGED apart

allreduce ==
  /\ Idle
  /\ \E r \in Requests : req[r] = "null"
  /\ \E e \in Codes : \E es \in OnError(e), qe \in OnError(e) :
       wrapper("allreduce", "MPI_Iallreduce", e, es, qe)
  /\ UNCHANGED <<substrate, prevInit, retired, waiting, bundles>>
  /\ UNCHANGED apart

\* allgather(values, count) and allgather(range): tiny_mpi.hpp:398-428.
allgather ==
  /\ Idle
  /\ \E r \in Requests : req[r] = "null"
  /\ \E e \in Codes : \E es \in OnError(e), qe \in OnError(e) :
       wrapper("allgather", "MPI_Iallgather", e, es, qe)
  /\ UNCHANGED <<substrate, prevInit, retired, waiting, bundles>>
  /\ UNCHANGED apart

\* allgather(values, counts, offsets): tiny_mpi.hpp:430-464.
allgatherv ==
  /\ Idle
  /\ \E r \in Requests : req[r] = "null"
  /\ \E e \in Codes : \E es \in OnError(e), qe \in OnError(e) :
       wrapper("allgatherv", "MPI_Iallgatherv", e, es, qe)
  /\ UNCHANGED <<substrate, prevInit, retired, waiting, bundles>>
  /\ UNCHANGED apart

\* The counts MPI_Get_count reports for the matching message.
ProbeCounts == {0, 1, 100}

\* probe(source, type, tag): part_003:88-97. e1: status of MPI_Probe; e2: of
\* MPI_Get_count, which stores the count n.
probe(e1, e2, es, qe, n) ==
  LET c1 == check("MPI_Probe", 0, e1, es, qe)
      c2 == check("MPI_Get_count", 0, e2, es, qe)
  IN IF c1.end # "return"
     THEN Finish("probe", 0, c1, 0)
     ELSE Finish("probe", 0, Outcome(c1.tr \o c2.tr, c2.end, c2.val), n)

Probe ==
  /\ Idle
  /\ \E e1 \in Codes, e2 \in Codes, n \in ProbeCounts :
       \E es \in OnError(e1 + e2), qe \in OnError(e1 + e2) :
         /\ e1 # 0 => e2 = 0
         /\ (e1 # 0 \/ e2 # 0) => n = 0
         /\ probe(e1, e2, es, qe, n)
  /\ UNCHANGED <<substrate, prevInit, handles>>
  /\ UNCHANGED apart

\* The substrate completes an operation in flight.
Complete ==
  /\ proc = "running"
  /\ \E r \in Requests :
       /\ req[r] = "inflight"
       /\ req' = [req EXCEPT ![r] = "complete"]
  /\ UNCHANGED <<proc, pc, trace, substrate, prevInit, retired, waiting, bundles, held>>
  /\ UNCHANGED apart

\* ------------------------------------------------------------------ wait
\* A wait that hands MPI_Waitall a count of 1 instead of ssize(reqs).
wait_first_only(reqs) ==
  /\ pc' = "MPI_Waitall"
  /\ waiting' = <<reqs[1]>>
  /\ retired' = [retired EXCEPT ![reqs[1]] = @ + 1]

\* wait(std::span<request_t> reqs): part_003:99-103, up to the point where
\* MPI_Waitall blocks. Every request of the array is handed to MPI_Waitall.
wait(reqs) ==
  /\ pc' = "MPI_Waitall"
  /\ waiting' = reqs
  /\ retired' = [r \in Requests |->
                   retired[r] + Cardinality({i \in DOMAIN reqs : reqs[i] = r})]

\* The arrays of requests a caller can name: the requests issued so far, each
\* at most once, in the order they were issued.
Issued == {r \in Requests : req[r] # "null"}
Arrays == {a \in UNION {[1..k -> Issued] : k \in 1..MaxRequests} :
             \A i, j \in DOMAIN a : i < j => a[i] < a[j]}

\* A wait(first, rest...) that forwards only the first request.
wait_fixed_first_only(first, rest) == wait(<<first>>)

\* wait(first, rest...): tiny_mpi.hpp:224-227. The named requests are copied
\* into a local array rs[], which is what wait(rs) is given.
wait_fixed(first, rest) == wait(<<first>> \o rest)

\* The requests the caller names in a call, as events.
Args(rs) == [k \in DOMAIN rs |-> Arg(rs[k])]
\* The arrays a caller passes to wait itself: requests not passed to a wait
\* before (a request is consumed by one wait).
Waitable == {rs \in Arrays : \A k \in DOMAIN rs : retired[rs[k]] = 0}

\* wait(reqs) called by the caller on an array of its own.
Wait ==
  /\ Idle
  /\ \E rs \in Waitable :
       /\ trace' = <<Enter("wait", Len(rs))>> \o Args(rs) \o <<Invoke("MPI_Waitall", Len(rs))>>
       /\ wait(rs)
  /\ UNCHANGED <<proc, substrate, prevInit, req, bundles, held>>
  /\ UNCHANGED apart

\* wait(first, rest...) called by the caller.
WaitFixed ==
  /\ Idle
  /\ \E rs \in Waitable :
       /\ trace' = <<Enter("wait(first, rest...)", Len(rs))>> \o Args(rs)
                     \o <<Enter("wait", Len(rs)), Invoke("MPI_Waitall", Len(rs))>>
       /\ wait_fixed(rs[1], SubSeq(rs, 2, Len(rs)))
  /\ UNCHANGED <<proc, substrate, prevInit, req, bundles, held>>
  /\ UNCHANGED apart

\* MPI_Waitall returns 0 only when every request it was given is complete
\* (a request that was already freed is an erroneous argument: any status).
CanComplete(reqs) == \A i \in DOMAIN reqs : req[reqs[i]] \in {"complete", "freed"}

\* The index of the bundle whose destructor is running.
Destroying == {i \in DOMAIN bundles : bundles[i].st = "destroying"}

\* An array handed to MPI_Waitall that is the caller's own variables, whatever
\* the form of the call.
ArrayOf_by_reference(form) == "caller"

\* Where the array handed to MPI_Waitall lives, by the form of the call:
\* wait(reqs) passes data(reqs), the caller's own array (part_003:102);
\* wait(first, rest...) takes its requests by value and copies them into the
\* local rs[] (tiny_mpi.hpp:224-225); async copies them into its member rs
\* (tiny_mpi.hpp:468-470).
ArrayOf(form) ==
  CASE form = "wait" -> "caller"
    [] form = "wait(first, rest...)" -> "rs[]"
    [] form = "~async" -> "async::rs"

\* MPI_Waitall returned status e: check inspects it (tiny_mpi.hpp:181-184),
\* then wait returns to ~async. With status 0 MPI_Waitall has stored
\* MPI_REQUEST_NULL in every element of the array it was given.
waitall_returned(e, es, qe) ==
  LET c == check("MPI_Waitall", Len(waiting), e, es, qe) IN
  /\ trace' = trace \o c.tr
                \o (IF c.end = "return" THEN <<Return("wait", 0)>> ELSE <<>>)
  /\ proc' = ProcAfter(c)
  /\ pc' = PcAfter(c)
  /\ req' = IF e = 0 THEN [r \in Requests |-> IF r \in Range(waiting) THEN "freed" ELSE req[r]]
            ELSE req
  /\ bundles' = IF c.end = "return"
                THEN [i \in DOMAIN bundles |->
                        IF i \in Destroying THEN [bundles[i] EXCEPT !.st = "destroyed"]
                        ELSE bundles[i]]
                ELSE bundles
  /\ waiting' = IF c.end = "return" THEN <<>> ELSE waiting
  /\ held' = IF e = 0 /\ ArrayOf(trace[1].sym) = "caller"
             THEN [r \in Requests |-> IF r \in Range(waiting) THEN "MPI_REQUEST_NULL"
                                      ELSE held[r]]
             ELSE held

MPI_Waitall_returns ==
  /\ proc = "running" /\ pc = "MPI_Waitall"
  /\ \A i \in DOMAIN guards : guards[i].st # "destroying"
  /\ \E e \in Codes : \E es \in OnError(e), qe \in OnError(e) :
       /\ e = 0 => CanComplete(waiting)
       /\ waitall_returned(e, es, qe)
  /\ UNCHANGED <<substrate, prevInit, retired>>
  /\ UNCHANGED apart

\* ----------------------------------------------------------- async<N>
ExitKinds == {"normal", "early_return", "exception"}

\* async(rs...): tiny_mpi.hpp:470-471. The requests are copied into rs[N].
async_ctor(rs) ==
  bundles' = Append(bundles, [rs |-> rs, st |-> "live", waits |-> <<>>, copyOf |-> 0])

Async ==
  /\ Idle
  /\ Len(bundles) < MaxBundles
  /\ \E rs \in Arrays : async_ctor(rs)
  /\ trace' = <<Enter("async", 0)>>
  /\ UNCHANGED <<proc, pc, substrate, prevInit, req, retired, waiting, held>>
  /\ UNCHANGED apart

\* The implicit copy constructor of async<N> (tiny_mpi.hpp:467-476 declares
\* none and deletes none): the copy holds the same request values.
async_copy(i) ==
  bundles' = Append(bundles, [rs |-> bundles[i].rs, st |-> "live",
                              waits |-> <<>>, copyOf |-> i])

AsyncCopy ==
  /\ Idle
  /\ Len(bundles) < MaxBundles
  /\ \E i \in DOMAIN bundles : bundles[i].st = "live" /\ async_copy(i)
  /\ trace' = <<Enter("async(const async&)", 0)>>
  /\ UNCHANGED <<proc, pc, substrate, prevInit, req, retired, waiting, held>>
  /\ UNCHANGED apart

\* The live bundle constructed last: the one the next scope exit destroys.
Live == {i \in DOMAIN bundles : bundles[i].st = "live"}
Top == CHOOSE i \in Live : \A j \in Live : j <= i

\* A bundle whose wait sits at the end of the scope's body instead of in the
\* destructor: an exception leaves the scope without waiting.
async_dtor_no_unwind(i, how) ==
  IF how = "exception"
  THEN /\ bundles' = [bundles EXCEPT ![i].st = "destroyed"]
       /\ trace' = <<Leave("~async", i, how)>>
       /\ UNCHANGED <<pc, waiting, retired>>
  ELSE LET reqs == bundles[i].rs IN
       /\ bundles' = [bundles EXCEPT ![i].st = "destroying",
                                     ![i].waits = Append(@, reqs)]
       /\ trace' = <<Leave("~async", i, how), Enter("wait", 0),
                     Invoke("MPI_Waitall", Len(reqs))>>
       /\ wait(reqs)

\* ~async(): tiny_mpi.hpp:473-475, wait(rs), whatever way the scope is left.
\* waits lists the arrays this destructor passed to wait.
async_dtor(i, how) ==
  LET reqs == bundles[i].rs IN
  /\ bundles' = [bundles EXCEPT ![i].st = "destroying",
                                ![i].waits = Append(@, reqs)]
  /\ trace' = <<Leave("~async", i, how), Enter("wait", 0),
                Invoke("MPI_Waitall", Len(reqs))>>
  /\ wait(reqs)

ScopeExit ==
  /\ Idle
  /\ Live # {}
  /\ \E how \in ExitKinds : async_dtor(Top, how)
  /\ UNCHANGED <<proc, substrate, prevInit, req, held>>
  /\ UNCHANGED apart

\* ------------------------------------------------------- scoped_init
\* scoped_init(wait, threading): tiny_mpi.hpp:495-503. init(threading), then
\* the guard is returned: it exists only if init returned.
scoped_init(w, support, qe, e, es, qe2, lvl) ==
  /\ init(support, qe, e, es, qe2, lvl)
  /\ guards' = IF proc' = "running" /\ pc' = "idle"
                THEN Append(guards, [wait |-> w, st |-> "live", fin |-> 0])
                ELSE guards

ScopedInit ==
  /\ Idle
  /\ Len(guards) < MaxGuards
  /\ \E w \in BOOLEAN, support \in Supports, qe \in QCodes, e \in Codes :
       \E es \in OnError(e), qe2 \in OnError(e),
          lvl \in (IF e = 0 /\ ~mpi_initialized THEN Levels ELSE {0}) :
         scoped_init(w, support, qe, e, es, qe2, lvl)
  /\ UNCHANGED <<handles, world, wire, lookup>>

\* The live guard constructed last: the one the next scope exit destroys.
LiveGuards == {i \in DOMAIN guards : guards[i].st = "live"}
TopGuard == CHOOSE i \in LiveGuards : \A j \in LiveGuards : j <= i
DestroyingGuards == {i \in DOMAIN guards : guards[i].st = "destroying"}

\* The guard i after a step of its destructor: fin counts the MPI_Finalize
\* calls its destructor made, and it is destroyed once fini has returned.
GuardAfter(i) ==
  [guards EXCEPT ![i].fin = @ + (nFinalize' - nFinalize),
                 ![i].st = IF proc' = "running" /\ pc' = "idle" THEN "destroyed"
                           ELSE "destroying"]

\* A destructor that finalizes without the barrier, whatever the flag.
raii_dtor_no_barrier(i, how, e, es, qe, fq, fe) ==
  /\ fini_after(<<Leave("~_raii", i, how)>>, fq, fe)
  /\ guards' = GuardAfter(i)
  /\ UNCHANGED <<req, retired, waiting>>

\* ~_raii(): tiny_mpi.hpp:486-491, up to the point where MPI_Waitall blocks
\* (flag set) or to its end (flag not set). e: status of MPI_Ibarrier; fq, fe:
\* statuses of the calls of fini.
raii_dtor(i, how, e, es, qe, fq, fe) ==
  IF guards[i].wait
  THEN LET c == check("MPI_Ibarrier", 0, e, es, qe)
           pre == <<Leave("~_raii", i, how), Enter("barrier", 0)>> \o c.tr
       IN IF c.end = "return"
          THEN /\ trace' = pre \o <<Return("barrier", Fresh), Enter("wait(first, rest...)", 1),
                                    Arg(Fresh), Enter("wait", 1), Invoke("MPI_Waitall", 1)>>
               /\ req' = [req EXCEPT ![Fresh] = "inflight"]
               /\ wait_fixed(Fresh, <<>>)
               /\ guards' = [guards EXCEPT ![i].st = "destroying"]
               /\ UNCHANGED <<proc, substrate>>
          ELSE /\ trace' = pre
               /\ proc' = ProcAfter(c)
               /\ pc' = PcAfter(c)
               /\ guards' = [guards EXCEPT ![i].st = "destroying"]
               /\ UNCHANGED <<substrate, req, retired, waiting>>
  ELSE /\ fini_after(<<Leave("~_raii", i, how)>>, fq, fe)
       /\ guards' = GuardAfter(i)
       /\ UNCHANGED <<req, retired, waiting>>

GuardExit ==
  /\ Idle
  /\ LiveGuards # {}
  /\ guards[TopGuard].wait => \E r \in Requests : req[r] = "null"
  /\ \E how \in ExitKinds, e \in (IF guards[TopGuard].wait THEN Codes ELSE {0}) :
       \E es \in OnError(e), qe \in OnError(e),
          fq \in (IF guards[TopGuard].wait THEN {0} ELSE QCodes),
          fe \in (IF guards[TopGuard].wait THEN {0} ELSE Codes) :
         raii_dtor(TopGuard, how, e, es, qe, fq, fe)
  /\ UNCHANGED <<prevInit, bundles, held, world, wire, lookup>>

\* A destructor that returns once the barrier is complete, without fini.
raii_dtor_resumed_no_fini(e, es, qe, fq, fe) ==
  LET c == check("MPI_Waitall", Len(waiting), e, es, qe)
      i == CHOOSE j \in DestroyingGuards : TRUE
  IN /\ trace' = trace \o c.tr \o (IF c.end = "return" THEN <<Return("wait", 0)>> ELSE <<>>)
     /\ proc' = ProcAfter(c)
     /\ pc' = PcAfter(c)
     /\ UNCHANGED substrate
     /\ guards' = GuardAfter(i)
     /\ req' = IF e = 0 THEN [r \in Requests |-> IF r \in Range(waiting) THEN "freed" ELSE req[r]]
               ELSE req
     /\ waiting' = IF c.end = "return" THEN <<>> ELSE waiting

\* ~_raii() after MPI_Waitall returned status e: check inspects it, wait
\* returns, and fini() runs (tiny_mpi.hpp:488-490).
raii_dtor_resumed(e, es, qe, fq, fe) ==
  LET c == check("MPI_Waitall", Len(waiting), e, es, qe)
      i == CHOOSE j \in DestroyingGuards : TRUE
  IN IF c.end = "return"
     THEN /\ fini_after(trace \o c.tr \o <<Return("wait", 0)>>, fq, fe)
          /\ guards' = GuardAfter(i)
          /\ req' = [r \in Requests |-> IF r \in Range(waiting) THEN "freed" ELSE req[r]]
          /\ waiting' = <<>>
     ELSE /\ trace' = trace \o c.tr
          /\ proc' = ProcAfter(c)
          /\ pc' = PcAfter(c)
          /\ UNCHANGED <<substrate, guards, req, waiting>>

Guard_Waitall_returns ==
  /\ proc = "running" /\ pc = "MPI_Waitall"
  /\ DestroyingGuards # {}
  /\ \E e \in Codes : \E es \in OnError(e), qe \in OnError(e),
                           fq \in (IF e = 0 THEN QCodes ELSE {0}),
                           fe \in (IF e = 0 THEN Codes ELSE {0}) :
       /\ e = 0 => CanComplete(waiting)
       /\ raii_dtor_resumed(e, es, qe, fq, fe)
  /\ UNCHANGED <<prevInit, retired, bundles, held, world, wire, lookup>>

\* ------------------------------------------------ byte-fallback overloads
\* int is 32 bits wide: two limbs of 16 bits. The product sizeof(T) * n is
\* computed in size_t (64 bits) and is kept as <<high, low>>, its value being
\* high * Limb + low, so that no intermediate value exceeds 32 bits.
Limb == 65536
HalfLimb == 32768

\* sizeof(T) * n in size_t, for an int n >= 0 (tiny_mpi.hpp:273, 316).
SizeTimes(sz, n) ==
  LET pl == sz * (n % Limb)
  IN <<sz * (n \div Limb) + (pl \div Limb), pl % Limb>>

\* The conversion of a size_t to the int count parameter of MPI_Isend and
\* MPI_Irecv: the low 32 bits, as a two's complement number.
ToInt(w) ==
  LET h == w[1] % Limb
  IN IF h >= HalfLimb THEN (h - Limb) * Limb + w[2] ELSE h * Limb + w[2]

\* The size_t w is the value of the int c.
SameValue(w, c) == w[1] < HalfLimb /\ c = w[1] * Limb + w[2]

\* sizeof(T) of the trivially copyable types without an MPI datatype that the
\* sender and the receiver use, and the element counts they pass.
Sizes == {1, 3, 12, 16}
Counts == {0, 1, 100, 178956970, 178956971, 2147483647}

\* A sender about to send n elements of a type of sz bytes to a receiver that
\* probes and receives with a type of rsz bytes.
Wire(sz, rsz, n) ==
  [sz |-> sz, rsz |-> rsz, n |-> n, st |-> "start",
   sent |-> <<>>, msg |-> <<>>, probed |-> <<>>, rn |-> <<>>, recvd |-> <<>>]

\* send<trivially_copyable T>(from, n, to_rank): tiny_mpi.hpp:263-275. The
\* count handed to MPI_Isend, with type<char>.
send_trivially_copyable(sz, n) == ToInt(SizeTimes(sz, n))

\* recv<trivially_copyable T>(to, n, from_rank): tiny_mpi.hpp:306-318. The
\* count handed to MPI_Irecv, with type<char>.
recv_trivially_copyable(sz, n) == ToInt(SizeTimes(sz, n))

\* A byte-fallback probe that returns the count of MPI_Get_count as it is.
probe_trivially_copyable_bytes(bytes, sz) == bytes

\* A byte-fallback probe that rounds the element count up.
probe_trivially_copyable_ceil(bytes, sz) ==
  IF bytes % sz = 0 THEN bytes \div sz ELSE bytes \div sz + 1

\* probe<trivially_copyable T>(source, tag): tiny_mpi.hpp:239-247,
\* probe(source, type<char>, tag) / sizeof(T): bytes is the int count of
\* chars MPI_Get_count stored, converted to size_t, divided, converted back.
probe_trivially_copyable(bytes, sz) == bytes \div sz

\* The sender calls send: MPI_Isend rejects a negative count (check then
\* ends the sender); otherwise a message of count chars is on its way.
SendBytes ==
  /\ wire # <<>> /\ wire.st = "start"
  /\ LET c == send_trivially_copyable(wire.sz, wire.n)
     IN wire' = IF c < 0 THEN [wire EXCEPT !.st = "failed", !.sent = <<c>>]
                ELSE [wire EXCEPT !.st = "sent", !.sent = <<c>>, !.msg = <<c>>]
  /\ UNCHANGED <<proc, pc, trace, substrate, prevInit, handles, guards, world, lookup>>

\* The receiver probes for the message.
ProbeBytes ==
  /\ wire # <<>> /\ wire.st = "sent"
  /\ wire' = [wire EXCEPT !.st = "probed",
                          !.probed = <<probe_trivially_copyable(wire.msg[1], wire.rsz)>>]
  /\ UNCHANGED <<proc, pc, trace, substrate, prevInit, handles, guards, world, lookup>>

\* The receiver posts its receive, for the count it probed or for the count
\* the sender was asked to send.
RecvBytes ==
  /\ wire # <<>> /\ wire.st = "probed"
  /\ \E k \in {wire.probed[1], wire.n} :
       LET c == recv_trivially_copyable(wire.rsz, k)
       IN wire' = [wire EXCEPT !.st = IF c < 0 THEN "failed" ELSE "received",
                               !.rn = <<k>>, !.recvd = <<c>>]
  /\ UNCHANGED <<proc, pc, trace, substrate, prevInit, handles, guards, world, lookup>>

\* ------------------------------------------------- the ranks of the group
\* op<F>: tiny_mpi.hpp:117-125, the MPI_Op a function-object type maps to.
op_plus_is_prod(f) ==
  CASE f = "min" -> "MPI_MIN"
    [] f = "max" -> "MPI_MAX"
    [] f = "std::plus" -> "MPI_PROD"
    [] f = "std::multiplies" -> "MPI_PROD"
    [] f = "std::bit_or" -> "MPI_BOR"
    [] f = "std::bit_and" -> "MPI_BAND"
    [] f = "std::bit_xor" -> "MPI_BXOR"
    [] f = "std::logical_or" -> "MPI_LOR"
    [] f = "std::logical_and" -> "MPI_LAND"

op(f) ==
  CASE f = "min" -> "MPI_MIN"
    [] f = "max" -> "MPI_MAX"
    [] f = "std::plus" -> "MPI_SUM"
    [] f = "std::multiplies" -> "MPI_PROD"
    [] f = "std::bit_or" -> "MPI_BOR"
    [] f = "std::bit_and" -> "MPI_BAND"
    [] f = "std::bit_xor" -> "MPI_BXOR"
    [] f = "std::logical_or" -> "MPI_LOR"
    [] f = "std::logical_and" -> "MPI_LAND"

\* The function objects the program of the ranks reduces with.
Functors == {"std::plus", "std::multiplies", "min", "max"}

\* What the substrate computes for an MPI_Op over two values.
Apply(mop, a, b) ==
  CASE mop = "MPI_SUM" -> a + b
    [] mop = "MPI_PROD" -> a * b
    [] mop = "MPI_MIN" -> IF a <= b THEN a ELSE b
    [] mop = "MPI_MAX" -> IF a >= b THEN a ELSE b

\* The reduction of the values vs[1..n] under mop, n >= 1.
RECURSIVE Reduce(_, _, _)
Reduce(mop, vs, n) ==
  IF n = 1 THEN vs[1] ELSE Apply(mop, Reduce(mop, vs, n - 1), vs[n])

\* The rank number of the i-th rank of the group: MPI_Comm_rank, 0-based.
RankOf(i) == i - 1

\* Every rank runs the same program: one collective, barrier(),
\* allreduce(value, op<F>) on a variable holding its rank number, or
\* allgather(values, counts, offsets) on its buffer buf, then a wait on the
\* request it returned; or it leaves the scope of a scoped_init guard whose
\* flag is wait, fin counting the MPI_Finalize calls of the rank.
World(R, fn, f) ==
  [i \in 1..R |-> [pc |-> "start", fn |-> fn, functor |-> f, value |-> RankOf(i),
                   called |-> FALSE, mop |-> "", sent |-> 0, h |-> "null",
                   buf |-> <<>>, recvcounts |-> <<>>, displs |-> <<>>, part |-> <<>>,
                   wait |-> TRUE, fin |-> 0]]

\* The program of the guards: rank i holds scoped_init(flags[i]).
GuardWorld(R, flags) ==
  [i \in 1..R |-> [World(R, "~_raii", "std::plus")[i] EXCEPT !.wait = flags[i]]]

\* The per-rank counts [1, 2, 3, ...] of a group of R ranks.
IotaCounts(R) == [j \in 1..R |-> j]
\* counts[1] + ... + counts[n]
RECURSIVE SumTo(_, _)
SumTo(counts, n) == IF n = 0 THEN 0 ELSE SumTo(counts, n - 1) + counts[n]
\* The offsets that are the running sums of the counts: 0, counts[1], ...
RunningSums(counts) == [j \in DOMAIN counts |-> SumTo(counts, j - 1)]

\* The k-th element rank i contributes, and the value of a buffer element
\* nothing was stored in.
Input(i, k) == 10 * RankOf(i) + k
Unset == -1

\* The buffer of rank i before the call: its own contribution at its offset.
OwnBuffer(i, counts, offsets) ==
  [p \in 1..SumTo(counts, Len(counts)) |->
     IF offsets[i] < p /\ p <= offsets[i] + counts[i] THEN Input(i, p - offsets[i])
     ELSE Unset]

\* The program of the variable-count allgather: every rank holds a buffer
\* for all contributions, with counts [1, 2, 3, ...] and their running sums.
GatherWorld(R) ==
  [i \in 1..R |-> [World(R, "allgatherv", "std::plus")[i] EXCEPT
                     !.buf = OwnBuffer(i, IotaCounts(R), RunningSums(IotaCounts(R)))]]

\* The rank's call of a wrapper returned: through check, a non-zero status
\* ends the rank (tiny_mpi.hpp:181-184).
RankAfterCall(i, symbol, e, ok) ==
  IF check(symbol, 0, e, 0, 0).end = "return"
  THEN world' = [world EXCEPT ![i] = ok]
  ELSE world' = [world EXCEPT ![i].pc = "failed"]

\* barrier(): tiny_mpi.hpp:215-222, on rank i. MPI_Ibarrier returns at once.
rank_barrier(i, e) ==
  RankAfterCall(i, "MPI_Ibarrier", e,
                [world[i] EXCEPT !.pc = "issued", !.called = TRUE, !.h = "inflight"])

\* allreduce(T& value, MPI_Op op): tiny_mpi.hpp:386-396, on rank i:
\* MPI_Iallreduce(MPI_IN_PLACE, &value, 1, type<T>, op, MPI_COMM_WORLD, &r).
rank_allreduce(i, mop, e) ==
  RankAfterCall(i, "MPI_Iallreduce", e,
                [world[i] EXCEPT !.pc = "issued", !.called = TRUE, !.h = "inflight",
                                 !.mop = mop, !.sent = world[i].value])

\* An allgather that hands the offsets to MPI_Iallgatherv as the counts and
\* the counts as the displacements.
rank_allgatherv_swapped(i, counts, offsets, e) ==
  RankAfterCall(i, "MPI_Iallgatherv", e,
                [world[i] EXCEPT !.pc = "issued", !.called = TRUE, !.h = "inflight",
                                 !.recvcounts = offsets, !.displs = counts,
                                 !.part = SubSeq(world[i].buf, counts[i] + 1,
                                                 counts[i] + offsets[i])])

\* allgather(T* values, counts, offsets): tiny_mpi.hpp:430-452, on rank i:
\* MPI_Iallgatherv(MPI_IN_PLACE, 0, MPI_DATATYPE_NULL, values, data(counts),
\* data(offsets), type<T>, MPI_COMM_WORLD, &r). In place, the rank's
\* contribution is the part of values at its own displacement.
rank_allgatherv(i, counts, offsets, e) ==
  RankAfterCall(i, "MPI_Iallgatherv", e,
                [world[i] EXCEPT !.pc = "issued", !.called = TRUE, !.h = "inflight",
                                 !.recvcounts = counts, !.displs = offsets,
                                 !.part = SubSeq(world[i].buf, offsets[i] + 1,
                                                 offsets[i] + counts[i])])

\* What MPI_Iallgatherv leaves in the buffer of rank i: the contribution of
\* every rank j at displs[j], recvcounts[j] elements long.
Gathered(i) ==
  LET w == world[i]
      Src(p) == {j \in DOMAIN world : w.displs[j] < p /\ p <= w.displs[j] + w.recvcounts[j]}
  IN [p \in DOMAIN w.buf |->
        IF Src(p) = {} THEN w.buf[p]
        ELSE LET j == CHOOSE j \in Src(p) : \A k \in Src(p) : k <= j
             IN world[j].part[p - w.displs[j]]]

\* fini() on a rank whose state is w: part_003:47-59. A failed query or a
\* failed MPI_Finalize is reported and the rank calls exit(EXIT_FAILURE).
rank_fini(w, fq, fe) ==
  LET q == initialized(fq) IN
  IF q.end = "exit" THEN [w EXCEPT !.pc = "exited"]
  ELSE IF ~q.val THEN [w EXCEPT !.pc = "done"]
  ELSE IF fe # 0 THEN [w EXCEPT !.pc = "exited", !.fin = @ + 1]
  ELSE [w EXCEPT !.pc = "finalized", !.fin = @ + 1]

\* A destructor that finalizes without the barrier, whatever the flag.
rank_raii_dtor_no_barrier(i, e, fq, fe) ==
  world' = [world EXCEPT ![i] = rank_fini(world[i], fq, fe)]

\* ~_raii() on rank i: tiny_mpi.hpp:486-491, up to the point where
\* MPI_Waitall blocks (flag set) or to its end (flag not set).
rank_raii_dtor(i, e, fq, fe) ==
  IF world[i].wait THEN rank_barrier(i, e)
  ELSE world' = [world EXCEPT ![i] = rank_fini(world[i], fq, fe)]

\* ~_raii() on rank i after MPI_Waitall returned status e: wait returns and
\* fini() runs (tiny_mpi.hpp:488-490).
rank_raii_dtor_resumed(i, e, fq, fe) ==
  /\ e = 0 => world[i].h = "complete"
  /\ RankAfterCall(i, "MPI_Waitall", e, rank_fini([world[i] EXCEPT !.h = "freed"], fq, fe))

\* The statuses of the calls of fini, where the rank's step reaches fini.
FiniCodes(i, e) ==
  IF world[i].fn = "~_raii" /\ e = 0 THEN QCodes \X Codes ELSE {<<0, 0>>}

RankCalls ==
  /\ \E i \in DOMAIN world : \E e \in Codes : \E fs \in FiniCodes(i, e) :
       /\ world[i].pc = "start"
       /\ CASE world[i].fn = "barrier" -> rank_barrier(i, e)
            [] world[i].fn = "~_raii" -> rank_raii_dtor(i, e, fs[1], fs[2])
            [] world[i].fn = "allreduce" -> rank_allreduce(i, op(world[i].functor), e)
            [] world[i].fn = "allgatherv" ->
                 rank_allgatherv(i, IotaCounts(Len(world)),
                                 RunningSums(IotaCounts(Len(world))), e)
  /\ UNCHANGED <<proc, pc, trace, substrate, prevInit, handles, guards, wire, lookup>>

\* The substrate completes the collective on rank i: every rank of the
\* group has made its matching call; an in-place reduction then holds the
\* reduction of all contributions, a gather's buffer all contributions.
RankCompletes ==
  /\ \E i \in DOMAIN world :
       /\ world[i].h = "inflight"
       /\ \A j \in DOMAIN world : world[j].called
       /\ world' = [world EXCEPT
                      ![i].h = "complete",
                      ![i].value = IF world[i].fn = "allreduce"
                                   THEN Reduce(world[i].mop,
                                               [j \in DOMAIN world |-> world[j].sent],
                                               Len(world))
                                   ELSE @,
                      ![i].buf = IF world[i].fn = "allgatherv" THEN Gathered(i) ELSE @]
  /\ UNCHANGED <<proc, pc, trace, substrate, prevInit, handles, guards, wire, lookup>>

\* wait(r) on rank i, up to the point where MPI_Waitall blocks.
RankWaits ==
  /\ \E i \in DOMAIN world :
       /\ world[i].pc = "issued"
       /\ world' = [world EXCEPT ![i].pc = "MPI_Waitall"]
  /\ UNCHANGED <<proc, pc, trace, substrate, prevInit, handles, guards, wire, lookup>>

\* A wait that returns at once, whether or not the request is complete.
rank_wait_returned_at_once(i, e) ==
  RankAfterCall(i, "MPI_Waitall", e, [world[i] EXCEPT !.pc = "done", !.h = "freed"])

\* wait(r) on rank i after MPI_Waitall returned status e (part_003:99-103):
\* with status 0 the request is complete.
rank_wait_returned(i, e) ==
  /\ e = 0 => world[i].h = "complete"
  /\ RankAfterCall(i, "MPI_Waitall", e, [world[i] EXCEPT !.pc = "done", !.h = "freed"])

RankWaitReturns ==
  /\ \E i \in DOMAIN world : \E e \in Codes : \E fs \in FiniCodes(i, e) :
       /\ world[i].pc = "MPI_Waitall"
       /\ IF world[i].fn = "~_raii" THEN rank_raii_dtor_resumed(i, e, fs[1], fs[2])
          ELSE rank_wait_returned(i, e)
  /\ UNCHANGED <<proc, pc, trace, substrate, prevInit, handles, guards, wire, lookup>>

\* A rank that failed calls MPI_Abort(MPI_COMM_WORLD, e) (part_003:70): the
\* substrate may end any other rank of the group.
RankKilled ==
  /\ \E i, j \in DOMAIN world :
       /\ world[j].pc = "failed"
       /\ world[i].pc \notin {"failed", "killed"}
       /\ world' = [world EXCEPT ![i].pc = "killed"]
  /\ UNCHANGED <<proc, pc, trace, substrate, prevInit, handles, guards, wire, lookup>>

\* ------------------------------------------------------- the registries
\* The value types type<T> is specialized for: tiny_mpi.hpp:61-75.
BuiltinTypes == {"std::byte", "char", "signed char", "short", "int", "long", "long long",
                 "unsigned char", "unsigned short", "unsigned int", "unsigned long",
                 "unsigned long long", "float", "double", "long double"}

\* type<T>: tiny_mpi.hpp:61-75 (and 45-59, the same table for Open MPI).
type(T) ==
  CASE T = "std::byte" -> "MPI_BYTE"
    [] T = "char" -> "MPI_CHAR"
    [] T = "signed char" -> "MPI_CHAR"
    [] T = "short" -> "MPI_SHORT"
    [] T = "int" -> "MPI_INT"
    [] T = "long" -> "MPI_LONG"
    [] T = "long long" -> "MPI_LONG_LONG_INT"
    [] T = "unsigned char" -> "MPI_UNSIGNED_CHAR"
    [] T = "unsigned short" -> "MPI_UNSIGNED_SHORT"
    [] T = "unsigned int" -> "MPI_UNSIGNED"
    [] T = "unsigned long" -> "MPI_UNSIGNED_LONG"
    [] T = "unsigned long long" -> "MPI_UNSIGNED_LONG"
    [] T = "float" -> "MPI_FLOAT"
    [] T = "double" -> "MPI_DOUBLE"
    [] T = "long double" -> "MPI_LONG_DOUBLE"

\* Code instantiated for two value types resolves the descriptor of each.
Resolve ==
  /\ \E T1 \in BuiltinTypes, T2 \in BuiltinTypes :
       lookup' = [NoLookup EXCEPT !.what = "type", !.t1 = T1, !.t2 = T2,
                                  !.d1 = type(T1), !.d2 = type(T2)]
  /\ UNCHANGED <<proc, pc, trace, substrate, prevInit, handles, guards, world, wire>>

\* std::min(a, b) of <algorithm>: b if b < a, else a.
std_min(a, b) == IF b < a THEN b ELSE a

\* min{}(a, b): tiny_mpi.hpp:90-94.
min(a, b) == std_min(a, b)

\* max{}(a, b): tiny_mpi.hpp:96-100, whose body is return std::min(a, b).
max(a, b) == std_min(a, b)

\* The values the function objects are applied to: -MaxValue..MaxValue.
MaxValue == 2
Values == (0 - MaxValue)..MaxValue

\* The program applies one of the two function objects of the layer.
ApplyFunctor ==
  /\ \E f \in {"min", "max"}, a \in Values, b \in Values :
       lookup' = [NoLookup EXCEPT !.what = "functor", !.f = f, !.a = a, !.b = b,
                                  !.r = IF f = "min" THEN min(a, b) ELSE max(a, b)]
  /\ UNCHANGED <<proc, pc, trace, substrate, prevInit, handles, guards, world, wire>>

\* ------------------------------------------------------------ the program
Init ==
  /\ proc = "running"
  /\ pc = "idle"
  /\ trace = <<>>
  /\ mpi_initialized = FALSE
  /\ mpi_finalized = FALSE
  /\ provided = <<>>
  /\ nInitThread = 0
  /\ nFinalize = 0
  /\ prevInit = <<>>
  /\ req = [r \in Requests |-> "null"]
  /\ retired = [r \in Requests |-> 0]
  /\ waiting = <<>>
  /\ bundles = <<>>
  /\ held = [r \in Requests |-> "none"]
  /\ NoneApart

\* A program that uses the lifecycle functions and the wrappers.
Next ==
  \/ Initialized
  \/ Finalized
  \/ Init_
  \/ Fini
  \/ Abort
  \/ MPI_Abort_kills
  \/ MPI_Abort_returns
  \/ barrier
  \/ send
  \/ recv
  \/ allreduce
  \/ allgather
  \/ allgatherv
  \/ Probe

Spec == Init /\ [][Next]_vars

\* A program that issues requests, bundles them in async<N> objects and
\* leaves their scopes. It starts before init() or after init() returned with
\* the default level granted (tiny_mpi.hpp:140).
InitAsync ==
  /\ proc = "running"
  /\ pc = "idle"
  /\ trace = <<>>
  /\ mpi_initialized \in BOOLEAN
  /\ mpi_finalized = FALSE
  /\ provided = IF mpi_initialized THEN <<THREAD_SERIALIZED>> ELSE <<>>
  /\ nInitThread = IF mpi_initialized THEN 1 ELSE 0
  /\ nFinalize = 0
  /\ prevInit = provided
  /\ req = [r \in Requests |-> "null"]
  /\ retired = [r \in Requests |-> 0]
  /\ waiting = <<>>
  /\ bundles = <<>>
  /\ held = [r \in Requests |-> "none"]
  /\ NoneApart

\* The calls made on an error path (MPI_Error_string, the MPI_Initialized
\* query of abort) succeeded, and MPI_Abort, if it returned, returned 0.
ErrorPathSucceeds ==
  \A k \in DOMAIN trace :
    (trace[k].ev = "call" /\ trace[k].sym \in {"MPI_Error_string", "MPI_Initialized", "MPI_Abort"})
      => trace[k].code = 0

\* The statuses of the error path's own calls are the subject of Spec; here
\* they succeed.
NextAsync ==
  \/ barrier /\ ErrorPathSucceeds'
  \/ send /\ ErrorPathSucceeds'
  \/ Complete
  \/ Async
  \/ AsyncCopy
  \/ ScopeExit
  \/ MPI_Waitall_returns /\ ErrorPathSucceeds'
  \/ MPI_Abort_kills
  \/ MPI_Abort_returns /\ ErrorPathSucceeds'

SpecAsync == InitAsync /\ [][NextAsync]_vars

\* A program that issues requests and waits on them itself, in both forms of
\* wait.
NextWait ==
  \/ barrier /\ ErrorPathSucceeds'
  \/ send /\ ErrorPathSucceeds'
  \/ Complete
  \/ Wait
  \/ WaitFixed
  \/ MPI_Waitall_returns /\ ErrorPathSucceeds'
  \/ MPI_Abort_kills
  \/ MPI_Abort_returns /\ ErrorPathSucceeds'

SpecWait == InitAsync /\ [][NextWait]_vars

\* Every MPI call of the operation returned status 0.
CallsSucceed == \A k \in DOMAIN trace : trace[k].ev = "call" => trace[k].code = 0

\* A program that, after init() returned, issues requests, keeps each in a
\* variable, and passes the variables to the fixed-arity wait and to async<N>
\* bundles. The error paths are the subject of the other specifications; here
\* every call succeeds.
InitCopies == InitAsync /\ mpi_initialized

NextCopies ==
  \/ barrier /\ CallsSucceed'
  \/ Complete
  \/ WaitFixed
  \/ Async
  \/ ScopeExit
  \/ MPI_Waitall_returns /\ CallsSucceed'

SpecCopies == InitCopies /\ [][NextCopies]_vars

\* A program whose scopes own scoped_init guards and call barrier().
NextGuard ==
  \/ ScopedInit
  \/ GuardExit
  \/ Guard_Waitall_returns
  \/ barrier
  \/ Complete
  \/ MPI_Abort_kills
  \/ MPI_Abort_returns

SpecGuard == Init /\ [][NextGuard]_vars

\* A program that calls init() and fini() itself and also owns scoped_init
\* guards, in any order.
NextLife ==
  \/ Init_
  \/ Fini
  \/ ScopedInit
  \/ GuardExit
  \/ Guard_Waitall_returns
  \/ Complete
  \/ MPI_Abort_kills
  \/ MPI_Abort_returns

SpecLife == Init /\ [][NextLife]_vars

\* The ranks of an initialized group, each about to call the one collective
\* of the program.
InitRanks ==
  /\ proc = "running"
  /\ pc = "idle"
  /\ trace = <<>>
  /\ mpi_initialized = TRUE
  /\ mpi_finalized = FALSE
  /\ provided = <<THREAD_SERIALIZED>>
  /\ nInitThread = 1
  /\ nFinalize = 0
  /\ prevInit = provided
  /\ req = [r \in Requests |-> "null"]
  /\ retired = [r \in Requests |-> 0]
  /\ waiting = <<>>
  /\ bundles = <<>>
  /\ held = [r \in Requests |-> "none"]
  /\ lookup = NoLookup
  /\ guards = <<>>
  /\ wire = <<>>
  /\ world \in {World(R, "barrier", "std::plus") : R \in 1..MaxRanks}
               \cup {World(R, "allreduce", f) : R \in 1..MaxRanks, f \in Functors}
               \cup {GatherWorld(R) : R \in 1..MaxRanks}
               \cup UNION {{GuardWorld(R, flags) : flags \in [1..R -> BOOLEAN]} :
                             R \in 1..MaxRanks}

NextRanks ==
  \/ RankCalls
  \/ RankCompletes
  \/ RankWaits
  \/ RankWaitReturns
  \/ RankKilled

SpecRanks == InitRanks /\ [][NextRanks]_vars

\* Two ranks of an initialized group: a byte-fallback send, probe and recv.
InitBytes ==
  /\ proc = "running"
  /\ pc = "idle"
  /\ trace = <<>>
  /\ mpi_initialized = TRUE
  /\ mpi_finalized = FALSE
  /\ provided = <<THREAD_SERIALIZED>>
  /\ nInitThread = 1
  /\ nFinalize = 0
  /\ prevInit = provided
  /\ req = [r \in Requests |-> "null"]
  /\ retired = [r \in Requests |-> 0]
  /\ waiting = <<>>
  /\ bundles = <<>>
  /\ held = [r \in Requests |-> "none"]
  /\ lookup = NoLookup
  /\ guards = <<>>
  /\ world = <<>>
  /\ wire \in {Wire(sz, rsz, n) : sz \in Sizes, rsz \in Sizes, n \in Counts}

NextBytes ==
  \/ SendBytes
  \/ ProbeBytes
  \/ RecvBytes

SpecBytes == InitBytes /\ [][NextBytes]_vars

\* A program that resolves wire types and applies min{} and max{}.
NextRegistry ==
  \/ Resolve
  \/ ApplyFunctor

SpecRegistry == Init /\ [][NextRegistry]_vars

\* Every rank keeps running its program (it leaves the scope of its guard,
\* it calls wait on the handle it holds), the substrate completes a
\* collective every rank has joined, and MPI_Waitall returns.
FairSpecRanks ==
  /\ SpecRanks
  /\ WF_vars(RankCalls) /\ WF_vars(RankCompletes)
  /\ WF_vars(RankWaits) /\ WF_vars(RankWaitReturns)

\* A call into the substrate produces its outcome: a thread inside MPI_Abort
\* is either ended there or gets the call's status back.
FairSpec == Spec /\ WF_vars(MPI_Abort_kills \/ MPI_Abort_returns)

\* ================================================================ claims
IsStderr(x) == x.ev = "stderr"
Last(tr) == tr[Len(tr)]
InvokesOf(tr, sym) == {k \in DOMAIN tr : tr[k].ev = "invoke" /\ tr[k].sym = sym}

\* C1: destroying an async<N> bundle built from k requests invokes wait
\* exactly once, over exactly the k requests it owns, whichever way its scope
\* is left (normal return, early return, propagated exception); a bundle
\* that is still alive has invoked no wait.
C1_DestructorWaitsOnce ==
  \A i \in DOMAIN bundles :
    LET b == bundles[i] IN
    /\ b.st = "live" => b.waits = <<>>
    /\ b.st # "live" => b.waits = <<b.rs>>
    /\ (b.st = "destroying" /\ proc = "running" /\ pc = "MPI_Waitall") =>
            /\ trace[1] \in {Leave("~async", i, how) : how \in ExitKinds}
            /\ waiting = b.rs
            /\ Cardinality(InvokesOf(trace, "MPI_Waitall")) = 1
            /\ \A k \in InvokesOf(trace, "MPI_Waitall") : trace[k].arg = Len(b.rs)

\* A bundle of two requests was destroyed by a scope left through an exception.
C1_Witness ==
  \E i \in DOMAIN bundles :
    /\ bundles[i].st = "destroyed"
    /\ trace[1] = Leave("~async", i, "exception")
    /\ Last(trace) = Return("wait", 0)
    /\ Len(bundles[i].rs) = 2

\* C2 as stated: once the scope of a bundle is left, by any exit or by a
\* failing substrate call inside it (which ends the process), all its requests
\* are retired (were passed to wait).
C2_RetiredOnEveryPath ==
  \A i \in DOMAIN bundles :
    (bundles[i].st # "live" \/ proc # "running") =>
       \A r \in Range(bundles[i].rs) : retired[r] >= 1

\* C2, amended: once the destructor of a bundle has run (its scope was left
\* by normal return, early return or an exception), all its requests are
\* retired; a process ended by a failing call inside the scope keeps the
\* bundle alive, its destructor never runs and it passes nothing to wait.
C2_RetiredAfterDestructor ==
  \A i \in DOMAIN bundles :
    /\ bundles[i].st # "live" => \A r \in Range(bundles[i].rs) : retired[r] >= 1
    /\ (bundles[i].st = "live" /\ proc # "running") => bundles[i].waits = <<>>

\* A bundle of two requests was destroyed by an early return, both retired.
C2_Witness ==
  \E i \in DOMAIN bundles :
    /\ bundles[i].st = "destroyed"
    /\ trace[1] = Leave("~async", i, "early_return")
    /\ Len(bundles[i].rs) = 2
    /\ \A r \in Range(bundles[i].rs) : retired[r] >= 1

\* C3 as stated: a bundle is not copyable, no two bundle objects own the same
\* request, and a request owned by a bundle is passed to wait by at most one
\* bundle destruction.
C3_NotCopyable ==
  /\ \A i \in DOMAIN bundles : bundles[i].copyOf = 0
  /\ \A i, j \in DOMAIN bundles :
       i # j => Range(bundles[i].rs) \cap Range(bundles[j].rs) = {}
  /\ \A r \in Requests :
       Cardinality({i \in DOMAIN bundles :
                      bundles[i].waits # <<>> /\ r \in Range(bundles[i].rs)}) <= 1

\* ---------------------------------------------------------------- check
\* The MPI functions the layer calls through check.
CheckedSyms == {"MPI_Ibarrier", "MPI_Isend", "MPI_Irecv", "MPI_Iallreduce", "MPI_Iallgather",
                "MPI_Iallgatherv", "MPI_Query_thread", "MPI_Waitall"}
CheckedCalls(tr) == {k \in DOMAIN tr : tr[k].ev = "call" /\ tr[k].sym \in CheckedSyms}
FailedChecks(tr) == {k \in CheckedCalls(tr) : tr[k].code # 0}
Lines(tr) == SelectSeq(tr, IsStderr)
Terminated == proc # "running"

\* C4: check calls the operation exactly once; on status 0 it returns to its
\* caller with no diagnostic and no termination; on a non-zero status e it
\* first emits print_error(symbol, e), then calls abort(e), and never returns.
C4_Check ==
  \A k \in CheckedCalls(trace) :
    LET e == trace[k].code
        sym == trace[k].sym
    IN /\ Cardinality({j \in DOMAIN trace : trace[j].ev \in {"call"} /\ trace[j].sym = sym}) = 1
       /\ e = 0 => /\ Idle
                   /\ Lines(trace) = <<>>
                   /\ \A j \in DOMAIN trace : trace[j].sym \notin {"print_error", "abort"}
                   /\ Len(trace) = k + 1
                   /\ trace[k + 1].ev = "return"
       /\ e # 0 => /\ Len(trace) >= k + 4
                   /\ trace[k + 1] = Enter("print_error", e)
                   /\ trace[k + 2].sym = "MPI_Error_string"
                   /\ trace[k + 3] \in {Stderr(sym, "returned error", e, e),
                                       Stderr(sym, "returned error", 0, e)}
                   /\ trace[k + 4] = Enter("abort", e)
                   /\ \A j \in DOMAIN trace : trace[j].ev # "return"
                   /\ ~Idle

\* MPI_Isend returned 2 inside send: reported, aborted, process ended.
C4_Witness ==
  /\ Terminated
  /\ \E k \in FailedChecks(trace) : trace[k].sym = "MPI_Isend" /\ trace[k].code = 2

\* C5 as stated: when a wrapper's substrate call returned non-zero and the
\* process has terminated, exactly one line was written to stderr, naming the
\* call and the code, and the exit status is a failure; initialized or not.
C5_OneLine ==
  \A k \in FailedChecks(trace) :
    Terminated =>
      /\ Len(Lines(trace)) = 1
      /\ Lines(trace)[1].sym = trace[k].sym /\ Lines(trace)[1].code = trace[k].code
      /\ Last(trace).ev = "exit" \/ (Last(trace).ev = "killed" /\ Last(trace).code # 0)

\* C5, amended: exactly one line naming the failed call and its code is
\* written, before anything else and before the process terminates with a
\* failure status. It is the only line when the substrate is initialized and
\* MPI_Abort does not return; otherwise (not initialized, the MPI_Initialized
\* query of abort failing, or MPI_Abort returning) abort writes a second line
\* before it exits.
C5_OneLineThenAbortLine ==
  \A k \in FailedChecks(trace) :
    Terminated =>
      LET ls == Lines(trace) IN
      /\ Len(ls) = IF proc = "killed" THEN 1 ELSE 2
      /\ ls[1].txt = "returned error"
      /\ ls[1].sym = trace[k].sym /\ ls[1].code = trace[k].code
      /\ \A j \in 2..Len(ls) : ls[j].txt # "returned error"
                                /\ ls[j].sym \in {"MPI_Abort", "MPI_Initialized"}
      /\ proc = "killed" => mpi_initialized
      /\ (~mpi_initialized /\ trace[k + 5].code = 0) =>
            ls[2] = Stderr("MPI_Abort", "called with error code", 0, trace[k].code)
      /\ Last(trace).ev = "exit" \/ (Last(trace).ev = "killed" /\ Last(trace).code # 0)

\* A wrapper failed before init(): two lines, then exit.
C5_Witness ==
  /\ proc = "exited"
  /\ ~mpi_initialized
  /\ trace[1].sym = "barrier"
  /\ FailedChecks(trace) # {}
  /\ Len(Lines(trace)) = 2

\* ------------------------------------------------------------ lifecycle
InitReturned(tr) == tr # <<>> /\ tr[1].ev = "enter" /\ tr[1].sym = "init"
                    /\ Last(tr) = Return("init", Last(tr).code)

\* C6: an init() that finds the substrate initialized does not call
\* MPI_Init_thread again and returns the level the first initialization was
\* granted, whatever level it is asked for: the same level the previous init()
\* returned.
C6_InitIdempotent ==
  [][(InitReturned(trace') /\ mpi_initialized) =>
        /\ nInitThread' = nInitThread
        /\ nInitThread' = 1
        /\ \A j \in DOMAIN trace' : trace'[j].sym # "MPI_Init_thread"
        /\ provided' = provided
        /\ Last(trace').code = provided[1]
        /\ Last(trace').code = prevInit[1]]_vars

\* A second init() asked for a level other than the one it returned.
C6_Witness ==
  /\ InitReturned(trace)
  /\ trace[2] = Call("MPI_Initialized", 1, 0)
  /\ trace[1].arg # Last(trace).code
  /\ nInitThread = 1

FiniReturned(tr) == tr # <<>> /\ tr[1] = Enter("fini", 0)

\* C7: fini() on a substrate that was never initialized (the query answers
\* so) is a no-op: no MPI_Finalize, no line on stderr, no termination, and
\* the substrate's lifecycle state is unchanged.
C7_FiniNoop ==
  [][(FiniReturned(trace') /\ ~mpi_initialized /\ trace'[2].code = 0) =>
        /\ trace' = <<Enter("fini", 0), Call("MPI_Initialized", 0, 0), Return("fini", 0)>>
        /\ proc' = "running" /\ pc' = "idle"
        /\ UNCHANGED substrate
        /\ ~mpi_initialized' /\ ~mpi_finalized']_vars

\* fini() returned with the substrate never initialized.
C7_Witness ==
  /\ FiniReturned(trace)
  /\ Last(trace) = Return("fini", 0)
  /\ ~mpi_initialized /\ ~mpi_finalized /\ nInitThread = 0
  /\ proc = "running"

\* C8 as stated: over any sequence of init and fini calls MPI_Finalize is
\* invoked at most once; a fini after the one that finalized does not call it.
C8_FinalizeOnce == nFinalize <= 1

\* ----------------------------------------------------------------- abort
AbortEntries(tr) == {k \in DOMAIN tr : tr[k].ev = "enter" /\ tr[k].sym = "abort"}

\* C9: abort never returns to its caller, and the process eventually
\* terminates, from every lifecycle state and whatever MPI_Abort does.
C9_AbortTerminates ==
  /\ [](AbortEntries(trace) # {} => ~Idle)
  /\ (AbortEntries(trace) # {}) ~> Terminated

\* abort() after MPI_Finalize, MPI_Abort returned success: the process exited.
C9_Witness ==
  /\ proc = "exited"
  /\ mpi_finalized
  /\ trace[1].sym = "abort"
  /\ \E k \in DOMAIN trace : trace[k].ev = "call" /\ trace[k].sym = "MPI_Abort"
                            /\ trace[k].code = 0

\* C10: abort(code) on an uninitialized substrate reports the code and exits
\* without calling MPI_Abort; on an initialized one it calls MPI_Abort(code),
\* and reports and exits only once that call has returned.
C10_AbortPaths ==
  \A k \in AbortEntries(trace) :
    LET e == trace[k].arg
        q == trace[k + 1]
    IN /\ q.ev = "call" /\ q.sym = "MPI_Initialized"
       /\ (q.code = 0 /\ q.arg = 0) =>
             /\ SubSeq(trace, k + 2, Len(trace)) =
                  <<Stderr("MPI_Abort", "called with error code", 0, e), Exit>>
             /\ proc = "exited"
             /\ \A j \in DOMAIN trace : trace[j].sym # "MPI_Abort" \/ trace[j].ev = "stderr"
       /\ (q.code = 0 /\ q.arg = 1) =>
             /\ trace[k + 2] = Invoke("MPI_Abort", e)
             /\ Len(trace) = k + 2 => proc = "running" /\ pc = "MPI_Abort"
             /\ Len(trace) > k + 2 =>
                  \/ SubSeq(trace, k + 3, Len(trace)) = <<Killed(e)>> /\ proc = "killed"
                  \/ /\ Len(trace) = k + 5
                     /\ trace[k + 3].ev = "call" /\ trace[k + 3].sym = "MPI_Abort"
                     /\ trace[k + 3].arg = e
                     /\ trace[k + 4] = Stderr("MPI_Abort", "failed with error code", 0,
                                              trace[k + 3].code)
                     /\ trace[k + 5] = Exit
                     /\ proc = "exited"

\* abort(2) before init(): the code was reported and the process exited.
C10_Witness ==
  /\ ~mpi_initialized
  /\ trace = <<Enter("abort", 2), Call("MPI_Initialized", 0, 0),
               Stderr("MPI_Abort", "called with error code", 0, 2), Exit>>

\* ------------------------------------------------------- query failures
QueryFailures(tr) ==
  {k \in DOMAIN tr : /\ tr[k].ev = "call"
                     /\ tr[k].sym \in {"MPI_Initialized", "MPI_Finalized"}
                     /\ tr[k].code # 0}

\* C11: when MPI_Initialized or MPI_Finalized returns an error, whether the
\* caller made the query or init, fini or abort did, the query writes its own
\* line and calls exit(EXIT_FAILURE) at once: nothing follows it, neither
\* print_error nor abort is entered after it, and MPI_Abort is never called.
C11_QueryFailureExits ==
  \A k \in QueryFailures(trace) :
    /\ Len(trace) = k + 2
    /\ trace[k + 1] = Stderr(trace[k].sym, "failed with", 0, trace[k].code)
    /\ trace[k + 2] = Exit
    /\ proc = "exited" /\ pc = "idle"
    /\ \A j \in DOMAIN trace :
         /\ j > k => ~(trace[j].ev = "enter" /\ trace[j].sym \in {"print_error", "abort"})
         /\ trace[j].ev \in {"invoke", "call", "killed"} => trace[j].sym # "MPI_Abort"

\* The query made by abort, entered from a failed barrier, failed itself.
C11_Witness ==
  /\ proc = "exited"
  /\ trace[1].sym = "barrier"
  /\ \E k \in QueryFailures(trace) : trace[k - 1].ev = "enter" /\ trace[k - 1].sym = "abort"

\* ------------------------------------------------------------ the guard
GuardTrace == trace # <<>> /\ trace[1].ev = "enter" /\ trace[1].sym = "~_raii"
FiniEntries(tr) == {k \in DOMAIN tr : tr[k] = Enter("fini", 0)}

\* C12: the destructor of a guard whose flag is set calls barrier(), passes
\* the request it returned to wait, and enters fini only after that wait has
\* returned (the barrier complete); with the flag not set it enters fini at
\* once, with no barrier and no wait. fini is entered at most once.
C12_GuardOrder ==
  GuardTrace =>
    LET i == trace[1].arg
        fin == FiniEntries(trace)
    IN /\ Cardinality(fin) <= 1
       /\ guards[i].st = "destroyed" => fin # {}
       /\ guards[i].wait =>
            /\ Len(trace) >= 3
            /\ trace[2] = Enter("barrier", 0)
            /\ trace[3].ev = "call" /\ trace[3].sym = "MPI_Ibarrier"
            /\ trace[3].code # 0 => fin = {}
            /\ trace[3].code = 0 =>
                 LET r == trace[4].code IN
                 /\ SubSeq(trace, 4, 8) = <<Return("barrier", r), Enter("wait(first, rest...)", 1),
                                            Arg(r), Enter("wait", 1), Invoke("MPI_Waitall", 1)>>
                 /\ (proc = "running" /\ pc = "MPI_Waitall") => waiting = <<r>> /\ fin = {}
                 /\ \A k \in fin : /\ k = 11
                                    /\ trace[9] = Call("MPI_Waitall", 1, 0)
                                    /\ trace[10] = Return("wait", 0)
                                    /\ req[r] = "freed"
       /\ ~guards[i].wait =>
            /\ trace[2] = Enter("fini", 0)
            /\ \A j \in DOMAIN trace :
                 trace[j].sym \notin {"barrier", "MPI_Ibarrier", "wait", "MPI_Waitall"}

\* A guard with the flag set was destroyed: barrier, wait, then fini.
C12_Witness ==
  /\ GuardTrace
  /\ guards[trace[1].arg].wait
  /\ guards[trace[1].arg].st = "destroyed"
  /\ trace[11] = Enter("fini", 0)
  /\ Last(trace) = Return("fini", 0)

\* C13 as stated: every guard whose scope has been left, by a scope exit that
\* ran its destructor or by a failure that ended the process, has invoked
\* MPI_Finalize exactly once.
C13_TeardownOnEveryPath ==
  \A i \in DOMAIN guards :
    (guards[i].st = "destroyed" \/ proc # "running") => guards[i].fin = 1

\* C13, amended: a guard whose destructor has run to its end (its scope was
\* left by return, early return or an exception) has invoked MPI_Finalize
\* exactly once; no guard invokes it more than once; a guard still alive,
\* also when a failing call has ended the process, has not invoked it; a
\* destructor cut short has invoked it only if MPI_Finalize itself failed.
C13_TeardownWhenDestroyed ==
  \A i \in DOMAIN guards :
    /\ guards[i].fin <= 1
    /\ guards[i].st = "destroyed" => guards[i].fin = 1
    /\ guards[i].st = "live" => guards[i].fin = 0
    /\ (guards[i].st = "destroying" /\ guards[i].fin = 1) =>
          /\ proc = "exited"
          /\ \E k \in DOMAIN trace : /\ trace[k].ev = "call" /\ trace[k].sym = "MPI_Finalize"
                                      /\ trace[k].code # 0

\* Two guards were destroyed, the last by an exception; each finalized once.
C13_Witness ==
  /\ Len(guards) = 2
  /\ \A i \in DOMAIN guards : guards[i].st = "destroyed" /\ guards[i].fin = 1
  /\ GuardTrace /\ trace[1].txt = "exception"
  /\ nFinalize = 2

\* ------------------------------------------------------------------ wait
\* The requests named by the caller in the call the trace records.
Named(tr) ==
  LET as == SelectSeq(tr, LAMBDA x : x.ev = "arg") IN [k \in DOMAIN as |-> as[k].arg]
WaitTrace == trace # <<>> /\ trace[1].ev = "enter"
             /\ trace[1].sym \in {"wait", "wait(first, rest...)"}

\* C14: a wait over a collection hands MPI_Waitall exactly the requests the
\* caller named, as one array, in the collection form and in the form
\* wait(first, rest...); and no wait returns before every request of the
\* collection is complete, in whatever order they completed: while one is in
\* flight the caller stays inside wait.
C14_WaitAll ==
  /\ [](WaitTrace =>
          /\ Len(Named(trace)) = trace[1].arg
          /\ (proc = "running" /\ pc = "MPI_Waitall") => waiting = Named(trace)
          /\ \A k \in InvokesOf(trace, "MPI_Waitall") : trace[k].arg = Len(Named(trace))
          /\ Last(trace) = Return("wait", 0) =>
                \A r \in Range(Named(trace)) : req[r] = "freed")
  /\ [][(proc = "running" /\ pc = "MPI_Waitall" /\ pc' = "idle" /\ proc' = "running") =>
          /\ Last(trace') = Return("wait", 0)
          /\ \A r \in Range(waiting) \cup Range(Named(trace)) :
                req[r] \in {"complete", "freed"} /\ req'[r] = "freed"]_vars

\* wait(first, rest...) over two named requests has returned.
C14_Witness ==
  /\ WaitTrace
  /\ trace[1].sym = "wait(first, rest...)"
  /\ Len(Named(trace)) = 2
  /\ Last(trace) = Return("wait", 0)
  /\ \A r \in Range(Named(trace)) : req[r] = "freed"

\* ------------------------------------------------------------- the group
\* barrier() returns its request to rank i now.
BarrierReturns(i) ==
  /\ rank_barrier(i, 0)
  /\ world'[i].pc = "issued" /\ world'[i].h = "inflight"
  /\ UNCHANGED <<proc, pc, trace, substrate, prevInit, handles, guards, wire, lookup>>

\* C15: barrier() does not block: a rank about to call it can complete the
\* call and get its request whatever the other ranks have done, also when
\* none of them has called barrier yet; and a rank's wait on that request has
\* returned only if every rank of the group has made its barrier call.
C15_Barrier ==
  \A i \in DOMAIN world :
    world[i].fn = "barrier" =>
      /\ world[i].pc = "start" => ENABLED BarrierReturns(i)
      /\ world[i].pc = "done" => \A j \in DOMAIN world : world[j].called

\* In a group of three, one rank's wait on its barrier request has returned
\* while another rank, its barrier issued, has not waited yet.
C15_Witness ==
  /\ Len(world) = 3
  /\ \E i, j \in DOMAIN world :
       /\ world[i].fn = "barrier" /\ world[i].pc = "done"
       /\ world[j].pc = "issued"

\* C20: when every one of R ranks calls the scalar allreduce with op<std::plus>
\* (MPI_SUM) on a variable holding its rank number and waits on the request,
\* the variable holds R*(R-1)/2 on every rank whose wait has returned.
C20_AllreduceSum ==
  \A i \in DOMAIN world :
    (world[i].fn = "allreduce" /\ world[i].functor = "std::plus" /\ world[i].pc = "done") =>
       /\ world[i].mop = "MPI_SUM"
       /\ world[i].value = (Len(world) * (Len(world) - 1)) \div 2

\* Three ranks reduced 0, 1, 2 with the sum and all waits returned: 3 everywhere.
C20_Witness ==
  /\ Len(world) = 3
  /\ \A i \in DOMAIN world :
       /\ world[i].fn = "allreduce" /\ world[i].functor = "std::plus"
       /\ world[i].pc = "done"
       /\ world[i].value = 3

\* ------------------------------------------------- calls into the substrate
\* The MPI functions the operation recorded in tr called, in order (a
\* blocking call is counted where it is entered).
IsSubstrateCall(x) == x.ev = "invoke" \/ (x.ev = "call" /\ x.sym # "MPI_Abort")
CallSyms(tr) ==
  LET cs == SelectSeq(tr, IsSubstrateCall) IN [k \in DOMAIN cs |-> cs[k].sym]
Wrappers == {"probe", "send", "recv", "allreduce", "allgather", "allgatherv", "barrier"}
Queries == {"initialized", "finalized", "init", "fini", "abort"}
\* The operation the trace records ran its success path to the end.
Succeeded == /\ trace # <<>>
             /\ trace[1].ev = "enter" /\ trace[1].sym \in Wrappers \cup Queries
             /\ \/ Last(trace).ev = "return"
                \/ trace[1].sym = "abort" /\ Terminated /\ QueryFailures(trace) = {}

\* C16 as stated: every Operation Wrapper and Lifecycle Query makes exactly
\* one call into the substrate on its success path.
C16_OneCall == Succeeded => Len(CallSyms(trace)) = 1

\* The calls each function makes on its success path.
SuccessCalls(fn) ==
  CASE fn = "initialized" -> {<<"MPI_Initialized">>}
    [] fn = "finalized" -> {<<"MPI_Finalized">>}
    [] fn = "init" -> {<<"MPI_Initialized", "MPI_Init_thread">>,
                       <<"MPI_Initialized", "MPI_Query_thread">>}
    [] fn = "fini" -> {<<"MPI_Initialized">>, <<"MPI_Initialized", "MPI_Finalize">>}
    [] fn = "abort" -> {<<"MPI_Initialized">>, <<"MPI_Initialized", "MPI_Abort">>}
    [] fn = "probe" -> {<<"MPI_Probe", "MPI_Get_count">>}
    [] fn = "send" -> {<<"MPI_Isend">>}
    [] fn = "recv" -> {<<"MPI_Irecv">>}
    [] fn = "allreduce" -> {<<"MPI_Iallreduce">>}
    [] fn = "allgather" -> {<<"MPI_Iallgather">>}
    [] fn = "allgatherv" -> {<<"MPI_Iallgatherv">>}
    [] fn = "barrier" -> {<<"MPI_Ibarrier">>}

\* C16, amended: on its success path initialized, finalized, send, recv,
\* allreduce, allgather, allgatherv and barrier each make exactly one call
\* into the substrate; probe makes two (MPI_Probe, then MPI_Get_count); init
\* makes two (the MPI_Initialized query, then MPI_Init_thread or
\* MPI_Query_thread); fini and abort make the MPI_Initialized query and, on an
\* initialized substrate, one more call (MPI_Finalize, MPI_Abort).
C16_CallsPerFunction ==
  Succeeded =>
    /\ CallSyms(trace) \in SuccessCalls(trace[1].sym)
    /\ trace[1].sym \in {"fini", "abort"} =>
          (Len(CallSyms(trace)) = 2 <=> trace[2] = Call("MPI_Initialized", 1, 0))

\* probe returned a count of 100 after its two calls.
C16_Witness ==
  /\ Succeeded
  /\ trace[1].sym = "probe"
  /\ Last(trace) = Return("probe", 100)
  /\ Len(CallSyms(trace)) = 2

\* ------------------------------------------------------- byte fallback
\* C17: for a type of 12 bytes without a datatype, after n elements were
\* sent with the byte-fallback send, probe<T> on the receiver returns the
\* byte count divided by sizeof(T), and that is n, for n = 0, 1 and 100.
C17_ProbeCountsElements ==
  (wire # <<>> /\ wire.sz = 12 /\ wire.rsz = 12 /\ wire.n \in {0, 1, 100}) =>
     /\ wire.st # "failed"
     /\ wire.msg # <<>> => wire.msg[1] = 12 * wire.n
     /\ wire.probed # <<>> => /\ wire.probed[1] = wire.msg[1] \div 12
                              /\ wire.probed[1] = wire.n

\* 100 records of 12 bytes were sent and the receiver probed 100.
C17_Witness ==
  /\ wire # <<>> /\ wire.sz = 12 /\ wire.rsz = 12 /\ wire.n = 100
  /\ wire.msg = <<1200>>
  /\ wire.probed = <<100>>

\* C18 as stated: probe<T> on a byte-fallback type returns the number of
\* bytes of the matching message, which the caller has to divide by sizeof(T).
C18_ProbeReturnsBytes ==
  (wire # <<>> /\ wire.probed # <<>>) => wire.probed[1] = wire.msg[1]

\* C18, amended: probe<T> on a byte-fallback type returns the number of
\* bytes of the matching message divided by sizeof(T), rounded down: the
\* number of whole elements, which is the bytes only when sizeof(T) is 1 or
\* the message is empty, and which the caller must not divide again.
C18_ProbeReturnsElements ==
  (wire # <<>> /\ wire.probed # <<>>) =>
     LET m == wire.probed[1]
         b == wire.msg[1]
     IN /\ m * wire.rsz <= b /\ b - m * wire.rsz < wire.rsz
        /\ m = b <=> (wire.rsz = 1 \/ b = 0)

\* A message of 100 bytes probed with a type of 12 bytes: 8 elements.
C18_Witness ==
  /\ wire # <<>> /\ wire.rsz = 12
  /\ wire.msg = <<100>>
  /\ wire.probed = <<8>>

\* C19 as stated: for every element count n >= 0 of an int, the count the
\* byte-fallback send and recv hand to the substrate is n * sizeof(T) itself.
C19_CountNotTruncated ==
  wire # <<>> =>
    /\ wire.sent # <<>> => SameValue(SizeTimes(wire.sz, wire.n), wire.sent[1])
    /\ wire.recvd # <<>> => SameValue(SizeTimes(wire.rsz, wire.rn[1]), wire.recvd[1])

\* The inputs of ranks 1..n, one after the other in rank order.
RECURSIVE Concatenation(_, _)
Concatenation(counts, n) ==
  IF n = 0 THEN <<>>
  ELSE Concatenation(counts, n - 1) \o [k \in 1..counts[n] |-> Input(n, k)]

\* C21: with counts [1, 2, 3, ...] and offsets their running sums, once a
\* rank's wait on the variable-count allgather's handle has returned, its
\* buffer is the concatenation of the per-rank inputs in rank order.
C21_GatherConcatenates ==
  \A i \in DOMAIN world :
    (world[i].fn = "allgatherv" /\ world[i].pc = "done")
      => world[i].buf = Concatenation(IotaCounts(Len(world)), Len(world))

\* Every rank of the largest group has waited on its allgather.
C21_Witness ==
  /\ Len(world) = MaxRanks
  /\ \A i \in DOMAIN world : world[i].fn = "allgatherv" /\ world[i].pc = "done"
  /\ world[1].buf[Len(world[1].buf)] = Input(MaxRanks, MaxRanks)

\* C22: two distinct built-in value types never resolve to the same
\* descriptor, except unsigned long long and unsigned long.
C22_OneToOne ==
  (lookup.what = "type" /\ lookup.t1 # lookup.t2 /\ lookup.d1 = lookup.d2)
    => {lookup.t1, lookup.t2} = {"unsigned long long", "unsigned long"}

\* C23: min{}(a, b) is the smaller of a and b, as MPI_MIN computes, and
\* max{}(a, b) is the larger of a and b, as MPI_MAX computes.
C23_MinMax ==
  lookup.what = "functor" =>
    /\ lookup.f = "min" => /\ lookup.r \in {lookup.a, lookup.b}
                           /\ lookup.r <= lookup.a /\ lookup.r <= lookup.b
    /\ lookup.f = "max" => /\ lookup.r \in {lookup.a, lookup.b}
                           /\ lookup.r >= lookup.a /\ lookup.r >= lookup.b
    /\ lookup.r = Apply(op(lookup.f), lookup.a, lookup.b)

\* The operation in progress or last finished is a fixed-arity wait or the
\* destruction of a bundle.
OnCopies(tr) == tr # <<>> /\ tr[1].sym \in {"wait(first, rest...)", "~async"}

\* C24: no step of a fixed-arity wait and no step of a bundle's destruction,
\* from the call to the return of MPI_Waitall, changes what a variable of the
\* caller holds: a variable that held a handle still holds it afterwards.
C24_CallerKeepsHandles == [][OnCopies(trace') => held' = held]_vars

\* A handle was waited on by a fixed-arity wait, its variable kept it, and a
\* bundle built from the same variable passed it to a second wait.
C24_Witness ==
  /\ pc = "idle"
  /\ OnCopies(trace) /\ trace[1].sym = "~async"
  /\ Last(trace) = Return("wait", 0)
  /\ \E r \in Requests :
       /\ held[r] = "handle" /\ retired[r] = 2
       /\ \E i \in DOMAIN bundles : bundles[i].st = "destroyed" /\ r \in Range(bundles[i].rs)
       /\ Cardinality({i \in DOMAIN bundles : r \in Range(bundles[i].rs)}) = 1

\* C25: over any sequence of init(), fini() and guard constructions and
\* destructions, MPI_Init_thread is called at most once, and never once the
\* substrate has been initialized, finalized since or not.
C25_InitThreadOnce ==
  [][nInitThread' <= 1 /\ (mpi_initialized => nInitThread' = nInitThread)]_vars

\* A guard was destroyed and finalized the substrate, and an init() called
\* afterwards returned without a second MPI_Init_thread.
C25_Witness ==
  /\ InitReturned(trace)
  /\ mpi_finalized
  /\ nInitThread = 1
  /\ \E i \in DOMAIN guards : guards[i].st = "destroyed" /\ guards[i].fin = 1

\* Every rank of the group holds a guard whose barrier flag is set.
AllFlagged == \A i \in DOMAIN world : world[i].fn = "~_raii" /\ world[i].wait
\* No rank's destructor called MPI_Finalize before every rank had started its
\* own destructor and issued its barrier.
FinalizeAfterBarriers ==
  (\E i \in DOMAIN world : world[i].fin > 0) => \A j \in DOMAIN world : world[j].called
\* A substrate call failed on some rank and ended it, or MPI_Abort ended it.
RankEnded == \E i \in DOMAIN world : world[i].pc \in {"failed", "exited", "killed"}
AllFinalized == \A i \in DOMAIN world : world[i].pc = "finalized" /\ world[i].fin = 1

\* C26: in a group where every rank's guard has its barrier flag set, no
\* rank's destructor reaches MPI_Finalize before every rank has started its
\* destructor and issued its barrier; and, every rank leaving its guard's
\* scope and no substrate call failing, every rank's destructor eventually
\* completes with the substrate finalized.
C26_GuardBarrier ==
  /\ [](AllFlagged => FinalizeAfterBarriers)
  /\ AllFlagged => (<>RankEnded \/ <>AllFinalized)

\* Every rank of the largest group has destroyed its flagged guard.
C26_Witness == Len(world) = MaxRanks /\ AllFlagged /\ AllFinalized
====
